---- MODULE Spec2Model ----
(***************************************************************************)
(* certman: live reloading of a TLS certificate and key pair.              *)
(*                                                                         *)
(* The model follows src/certman.go (type CertMan): the caller's thread    *)
(* (Watch, Stop), the monitoring goroutine (run), the handshake contexts   *)
(* (GetCertificate, GetClientCertificate), and the environment: the files  *)
(* on disk, the fsnotify watcher's channels, the ticker and the clock.     *)
(***************************************************************************)
EXTENDS Integers, Sequences, FiniteSets, TLC

(* ------------------------------ bounds -------------------------------- *)

\* Clock resolution: the number of clock steps in one time.Second.
Second == 2

\* The clock stops advancing here.
MaxTime == 5

\* Number of things the environment does: file system operations, watch
\* backend errors and handshakes (accessor calls).
MaxEnvOps == 2

\* Number of Stop calls the caller's thread makes.
MaxStops == 2

(* ------------------------- program constants -------------------------- *)

\* time.Time{}: the zero time, reload.IsZero().
ZeroTime == 0

\* time.NewTicker(1 * time.Second)
TickPeriod == 1 * Second

\* time.Now().Add(1 * time.Second)
Delay == 1 * Second

\* The nil channel: cm.watching before Watch has made one.
NilChan == 0

\* The nil pointer: cm.keyPair before load() has stored one.
NilRef == 0

(* ------------------------------ values -------------------------------- *)

\* The identities (public keys) that certificates and private keys carry.
Identities == {"id1", "id2"}

\* What a file can hold: nothing (it does not exist), bytes that do not
\* parse, or the PEM encoding of a certificate / key of some identity.
Missing == "missing"
Garbage == "garbage"
Contents == {Missing, Garbage} \cup Identities

\* cm.keyPair == nil
NoPair == [cert |-> "none", key |-> "none"]

\* Paths are sequences of path elements.  The two directories a file can
\* live in:
Dirs == {<<"d1">>, <<"d2">>}

VARIABLES
    \* environment
    now,        \* time.Now()
    cfg,        \* where the two files live and which directories exist
    certData,   \* content of cm.certFile on disk
    keyData,    \* content of cm.keyFile on disk
    envOps,     \* what the environment has done so far
    \* CertMan
    mu,         \* cm.mu: "free" or "W" (write-locked)
    keyPair,    \* cm.keyPair
    watcher,    \* cm.watcher: "nil", "open", "closed"
    watched,    \* directories added to cm.watcher
    watching,   \* cm.watching: NilChan or the channel made by Watch
    log,        \* what cm.log.Printf has received
    \* channels
    events,     \* cm.watcher.Events
    errors,     \* cm.watcher.Errors (number of errors waiting)
    tick,       \* ticker.C holds a tick (buffer of one)
    tickerNext, \* when the ticker fires next; ZeroTime when there is none
    \* goroutine of run()
    looppc,     \* position of run()
    reload,     \* run()'s local variable reload
    \* load() in progress
    ld,         \* who called load(), its position and what it has read
    \* caller's thread
    callerpc,   \* position of the caller's thread
    sendChan,   \* the channel the blocked Stop is sending on
    calls,      \* calls made and returned so far
    \* handshake contexts
    got,        \* what the last accessor call returned: the pointer (ref),
                \* the pair it pointed to then (pair) and the error
    \* history
    produced,   \* pairs tls.LoadX509KeyPair has returned without error
    failedLoads,\* number of load() calls that returned an error
    burst,      \* the current burst of matching events
    snap,       \* the files have been written since Watch was called
    \* resources
    running,    \* goroutines of run() started and not ended
    opened,     \* watchers made by fsnotify.NewWatcher and not closed
    adds,       \* the paths cm.watcher.Add has registered, in order
    \* heap
    heap,       \* the tls.Certificate values load() has allocated
    keyPairRef, \* cm.keyPair as a pointer: an index of heap, 0 for nil
    \* run()'s local variable event
    event       \* the name of the event run() received last

envVars == <<now, cfg, certData, keyData, envOps>>
cmVars == <<mu, keyPair, watcher, watched, watching, log>>
chanVars == <<events, errors, tick, tickerNext>>
loopVars == <<looppc, reload>>
callerVars == <<callerpc, sendChan, calls>>
getVars == <<got>>
histVars == <<produced, failedLoads, burst, snap>>
resVars == <<running, opened, adds>>
heapVars == <<heap, keyPairRef>>

vars ==
    <<envVars, cmVars, chanVars, loopVars, ld, callerVars, getVars, histVars,
      resVars, heapVars, event>>

(* ------------------------------ helpers ------------------------------- *)

\* cm.certFile and cm.keyFile, absolute since New.
certFile == cfg.certDir \o <<"server.crt">>
keyFile == cfg.keyDir \o <<"server.key">>

\* path.Dir(p): p without its last element.
PathDir(p) == SubSeq(p, 1, Len(p) - 1)

\* strings.HasSuffix(name, "/..data")
HasDataSuffix(name) == Len(name) >= 2 /\ name[Len(name)] = "..data"

\* A log line: the format string's fixed text and its argument.
Line(text, arg) == <<text, arg>>

Printf(text, arg) == Append(log, Line(text, arg))

CantLoad(reason) == Line("can't load cert or key file", reason)
Loaded == Line("certificate and key loaded", "")
WatchingMsg == Line("watching for cert and key change", "")
StoppedMsg == Line("stopped watching", "")

\* Number of lines of s that satisfy P.
Count(s, P(_)) == Cardinality({i \in DOMAIN s : P(s[i])})

QueueArg(f) == IF f = certFile THEN "certFile" ELSE "keyFile"

IsCantLoad(l) == l[1] = "can't load cert or key file"
IsLoaded(l) == l = Loaded
IsReloading(l) == l[1] = "reloading"

NoLoad == [who |-> "none", pc |-> "none", cert |-> "none", key |-> "none"]

\* The burst of matching events in progress: when run() processed its first
\* and its last event, whether it has several events, the load attempts
\* since it began, whether an event joined it after a load attempt, and
\* whether it began with no reload pending.
NoBurst ==
    [first |-> ZeroTime, last |-> ZeroTime, many |-> FALSE, loads |-> 0,
     late |-> FALSE, clean |-> TRUE]

NoRet == [err |-> "none", path |-> <<>>]

\* run() has received no event yet.
NoEvent == <<>>
Nil == [err |-> "nil", path |-> <<>>]

(* ------------------------------- Init --------------------------------- *)

\* New(certFile, keyFile): cm.keyPair, cm.watcher and cm.watching are left at
\* their zero values; no goroutine runs.  The files that exist hold a valid
\* pair; the environment rewrites them as it likes.
Configs ==
    {[certDir |-> c, keyDir |-> k, exist |-> e] :
        c \in {<<"d1">>}, k \in Dirs, e \in SUBSET Dirs}

Init ==
    /\ now = 1
    /\ cfg \in {c \in Configs : c.exist \subseteq {c.certDir, c.keyDir}}
    /\ certData = (IF cfg.certDir \in cfg.exist THEN "id1" ELSE Missing)
    /\ keyData = (IF cfg.keyDir \in cfg.exist THEN "id1" ELSE Missing)
    /\ envOps = 0
    /\ mu = "free"
    /\ keyPair = NoPair
    /\ watcher = "nil"
    /\ watched = {}
    /\ watching = NilChan
    /\ log = <<>>
    /\ events = <<>>
    /\ errors = 0
    /\ tick = FALSE
    /\ tickerNext = ZeroTime
    /\ looppc = "none"
    /\ reload = ZeroTime
    /\ ld = NoLoad
    /\ callerpc = "idle"
    /\ sendChan = NilChan
    /\ calls = [watch |-> 0, watchRet |-> NoRet, stop |-> 0, stopRet |-> 0]
    /\ got = [fn |-> "none", pair |-> NoPair, err |-> "nil", ref |-> NilRef]
    /\ produced = {}
    /\ failedLoads = 0
    /\ burst = NoBurst
    /\ snap = FALSE
    /\ running = 0
    /\ opened = 0
    /\ adds = <<>>
    /\ heap = <<>>
    /\ keyPairRef = NilRef
    /\ event = NoEvent

(* ---------------------------- environment ----------------------------- *)

EnvMay == envOps < MaxEnvOps

\* The watcher reports a change of a path when it is open and the path's
\* directory has been added to it.
Notify(name) ==
    IF watcher = "open" /\ PathDir(name) \in watched
    THEN Append(events, name)
    ELSE events

\* A process writes (or removes: c = Missing) the certificate file.
WriteCert(c) ==
    /\ EnvMay
    /\ cfg.certDir \in cfg.exist
    /\ certData' = c
    /\ envOps' = envOps + 1
    /\ events' = Notify(certFile)
    /\ snap' = TRUE
    /\ UNCHANGED <<now, cfg, keyData, cmVars, errors, tick, tickerNext,
                   loopVars, ld, callerVars, getVars, produced, failedLoads, burst,
                   resVars, heapVars, event>>

\* A process writes (or removes) the key file.
WriteKey(c) ==
    /\ EnvMay
    /\ cfg.keyDir \in cfg.exist
    /\ keyData' = c
    /\ envOps' = envOps + 1
    /\ events' = Notify(keyFile)
    /\ snap' = TRUE
    /\ UNCHANGED <<now, cfg, certData, cmVars, errors, tick, tickerNext,
                   loopVars, ld, callerVars, getVars, produced, failedLoads, burst,
                   resVars, heapVars, event>>

\* A kubernetes secret volume is remounted: the "..data" symlink of
\* directory d is re-pointed, which replaces every file of d at once.
SwapData(d, id) ==
    /\ EnvMay
    /\ d \in cfg.exist
    /\ certData' = IF cfg.certDir = d THEN id ELSE certData
    /\ keyData' = IF cfg.keyDir = d THEN id ELSE keyData
    /\ envOps' = envOps + 1
    /\ events' = Notify(d \o <<"..data">>)
    /\ snap' = TRUE
    /\ UNCHANGED <<now, cfg, cmVars, errors, tick, tickerNext,
                   loopVars, ld, callerVars, getVars, produced, failedLoads, burst,
                   resVars, heapVars, event>>

\* Another file of directory d changes.
WriteOther(d) ==
    /\ EnvMay
    /\ d \in cfg.exist
    /\ envOps' = envOps + 1
    /\ events' = Notify(d \o <<"other">>)
    /\ UNCHANGED <<now, cfg, certData, keyData, cmVars, errors, tick,
                   tickerNext, loopVars, ld, callerVars, getVars, histVars,
                   resVars, heapVars, event>>

\* The watch backend reports an error.
BackendError ==
    /\ EnvMay
    /\ watcher = "open"
    /\ envOps' = envOps + 1
    /\ errors' = errors + 1
    /\ UNCHANGED <<now, cfg, certData, keyData, cmVars, events, tick,
                   tickerNext, loopVars, ld, callerVars, getVars, histVars,
                   resVars, heapVars, event>>

\* The clock advances; a running ticker puts a tick into ticker.C (which
\* holds at most one) every TickPeriod.  Nothing reads the clock before
\* run() has made its ticker or after it has stopped it, so the clock is
\* followed from the one to the other.
Elapse ==
    /\ now < MaxTime
    /\ tickerNext # ZeroTime
    /\ now' = now + 1
    /\ IF tickerNext # ZeroTime /\ now' >= tickerNext
       THEN tick' = TRUE /\ tickerNext' = tickerNext + TickPeriod
       ELSE UNCHANGED <<tick, tickerNext>>
    /\ UNCHANGED <<cfg, certData, keyData, envOps, cmVars, events,
                   errors, loopVars, ld, callerVars, getVars, histVars,
                   resVars, heapVars, event>>

(* -------------------------------- load -------------------------------- *)

\* os.ReadFile(file) of a file that holds data.
ReadFile(data) ==
    [err |-> IF data = Missing THEN "FileUnreadable" ELSE "nil", data |-> data]

\* X509KeyPair without the comparison of the two public keys.
X509KeyPairUnchecked(certPEM, keyPEM) ==
    IF certPEM = Garbage \/ keyPEM = Garbage
    THEN [err |-> "ParseFailure", pair |-> NoPair]
    ELSE [err |-> "nil", pair |-> [cert |-> certPEM, key |-> keyPEM]]

\* tls.X509KeyPair(certPEM, keyPEM): both must parse and the certificate's
\* public key must be the private key's.
X509KeyPair(certPEM, keyPEM) ==
    IF certPEM = Garbage \/ keyPEM = Garbage
    THEN [err |-> "ParseFailure", pair |-> NoPair]
    ELSE IF certPEM # keyPEM
    THEN [err |-> "MismatchedPair", pair |-> NoPair]
    ELSE [err |-> "nil", pair |-> [cert |-> certPEM, key |-> keyPEM]]

\* tls.LoadX509KeyPair(certFile, keyFile) on files that hold certPEM and
\* keyPEM: both must be readable, and then tls.X509KeyPair decides.
LoadX509KeyPair(certPEM, keyPEM) ==
    IF ReadFile(certPEM).err # "nil" \/ ReadFile(keyPEM).err # "nil"
    THEN [err |-> "FileUnreadable", pair |-> NoPair]
    ELSE X509KeyPair(certPEM, keyPEM)

\* load() returns err to its caller, which goes on: Watch to its
\* "watching" message, run() to its select.
Resume ==
    IF ld.who = "Watch"
    THEN callerpc' = "watch_start" /\ UNCHANGED looppc
    ELSE looppc' = "select" /\ UNCHANGED callerpc

\* loadFailed with cm.keyPair assigned the empty result of the failed call.
loadFailedDropsPair(reason) ==
    /\ log' = log \o <<CantLoad(reason), CantLoad(reason)>>
    /\ failedLoads' = failedLoads + 1
    /\ ld' = NoLoad
    /\ Resume
    /\ keyPair' = NoPair
    /\ UNCHANGED <<mu, produced>>

\* tls.LoadX509KeyPair returned err: load() logs it and returns it, and its
\* caller (Watch or run) logs it too.  cm.keyPair is not assigned.
loadFailed(reason) ==
    /\ log' = log \o <<CantLoad(reason), CantLoad(reason)>>
    /\ failedLoads' = failedLoads + 1
    /\ ld' = NoLoad
    /\ Resume
    /\ UNCHANGED <<mu, keyPair, produced>>

\* tls.LoadX509KeyPair reads the certificate file first.
loadReadCert ==
    /\ ld.pc = "readCert"
    /\ IF ReadFile(certData).err # "nil"
       THEN loadFailed(ReadFile(certData).err)
       ELSE /\ ld' = [ld EXCEPT !.pc = "readKey", !.cert = certData]
            /\ UNCHANGED <<log, failedLoads, mu, keyPair, produced, looppc, callerpc>>
    /\ UNCHANGED <<envVars, watcher, watched, watching, chanVars, reload, sendChan,
                   calls, getVars, burst, snap, resVars, heapVars, event>>

\* ... then the key file, and checks the pair.  The pair it returns is
\* load()'s local variable keyPair, whose address load() takes: a new heap
\* object for each call.
loadReadKey ==
    /\ ld.pc = "readKey"
    /\ LET r == LoadX509KeyPair(ld.cert, keyData) IN
       IF r.err # "nil"
       THEN loadFailed(r.err)
       ELSE /\ ld' = [ld EXCEPT !.pc = "lock", !.cert = r.pair.cert, !.key = r.pair.key]
            /\ produced' = produced \cup {r.pair}
            /\ UNCHANGED <<log, failedLoads, mu, keyPair, looppc, callerpc>>
    /\ heap' = (IF LoadX509KeyPair(ld.cert, keyData).err = "nil"
                THEN Append(heap, LoadX509KeyPair(ld.cert, keyData).pair)
                ELSE heap)
    /\ UNCHANGED <<envVars, watcher, watched, watching, chanVars, reload, sendChan,
                   calls, getVars, burst, snap, resVars, keyPairRef, event>>

\* loadStore without the assignment.
loadStoreForgets ==
    /\ ld.pc = "lock"
    /\ mu = "free"
    /\ mu' = "W"
    /\ keyPair' = keyPair
    /\ ld' = [ld EXCEPT !.pc = "log"]
    /\ UNCHANGED <<envVars, watcher, watched, watching, log, chanVars, loopVars,
                   callerVars, getVars, histVars, resVars, heapVars, event>>

\* loadStore with *cm.keyPair = keyPair once cm.keyPair points to a pair: the
\* pair is copied into the object the store already holds.
loadStoreInPlace ==
    /\ ld.pc = "lock"
    /\ mu = "free"
    /\ mu' = "W"
    /\ keyPair' = [cert |-> ld.cert, key |-> ld.key]
    /\ IF keyPairRef = NilRef
       THEN keyPairRef' = Len(heap) /\ UNCHANGED heap
       ELSE /\ heap' = [heap EXCEPT ![keyPairRef] = [cert |-> ld.cert, key |-> ld.key]]
            /\ UNCHANGED keyPairRef
    /\ ld' = [ld EXCEPT !.pc = "log"]
    /\ UNCHANGED <<envVars, watcher, watched, watching, log, chanVars, loopVars,
                   callerVars, getVars, histVars, resVars, event>>

\* cm.mu.Lock(); cm.keyPair = &keyPair: the store points to the object this
\* call of load() has allocated.
loadStore ==
    /\ ld.pc = "lock"
    /\ mu = "free"
    /\ mu' = "W"
    /\ keyPair' = [cert |-> ld.cert, key |-> ld.key]
    /\ keyPairRef' = Len(heap)
    /\ ld' = [ld EXCEPT !.pc = "log"]
    /\ UNCHANGED <<envVars, watcher, watched, watching, log, chanVars, loopVars,
                   callerVars, getVars, histVars, resVars, heap, event>>

\* cm.log.Printf("certificate and key loaded"); return nil, which runs the
\* deferred cm.mu.Unlock().
loadDone ==
    /\ ld.pc = "log"
    /\ log' = Printf("certificate and key loaded", "")
    /\ mu' = "free"
    /\ ld' = NoLoad
    /\ Resume
    /\ UNCHANGED <<envVars, keyPair, watcher, watched, watching, chanVars, reload,
                   sendChan, calls, getVars, histVars, resVars, heapVars, event>>

(* ------------------------------- Watch -------------------------------- *)

WatchFails(ret) ==
    /\ callerpc' = "idle"
    /\ calls' = [calls EXCEPT !.watch = @ + 1, !.watchRet = ret]
    /\ UNCHANGED ld

\* Registrations without the comparison of the two directories.
RegistrationsBoth(certPath, keyPath) == <<certPath, keyPath>>

\* The paths Watch registers when every Add succeeds: cm.watcher.Add(certPath)
\* and, if keyPath != certPath, cm.watcher.Add(keyPath).
Registrations(certPath, keyPath) ==
    IF keyPath # certPath
    THEN <<certPath, keyPath>>
    ELSE <<certPath>>

\* Watch up to its call of load(): fsnotify.NewWatcher() (which succeeds
\* or not: created), then Add of the certificate's directory and, when it
\* is another one, of the key's directory.  cm.watcher is assigned the new
\* watcher; a watcher it held before is not closed.
Watch(created) ==
    /\ callerpc = "idle"
    /\ snap' = FALSE
    /\ LET certPath == PathDir(certFile)
           keyPath == PathDir(keyFile)
       IN
       IF ~created
       THEN /\ watcher' = "nil"
            /\ UNCHANGED <<watched, opened, adds>>
            /\ WatchFails([err |-> "can't create watcher", path |-> <<>>])
       ELSE IF certPath \notin cfg.exist
       THEN /\ watcher' = "open"
            /\ opened' = opened + 1
            /\ watched' = {}
            /\ adds' = <<>>
            /\ WatchFails([err |-> "can't watch", path |-> certPath])
       ELSE IF keyPath # certPath /\ keyPath \notin cfg.exist
       THEN /\ watcher' = "open"
            /\ opened' = opened + 1
            /\ watched' = {certPath}
            /\ adds' = <<certPath>>
            /\ WatchFails([err |-> "can't watch", path |-> keyPath])
       ELSE /\ watcher' = "open"
            /\ opened' = opened + 1
            /\ watched' = {certPath, keyPath}
            /\ adds' = Registrations(certPath, keyPath)
            /\ callerpc' = "watch_load"
            /\ calls' = [calls EXCEPT !.watch = @ + 1]
            /\ ld' = [NoLoad EXCEPT !.who = "Watch", !.pc = "readCert"]
    /\ UNCHANGED <<envVars, mu, keyPair, watching, log, chanVars, loopVars,
                   sendChan, getVars, produced, failedLoads, burst, running,
                   heapVars, event>>

\* WatchStart that gives up when load() has not stored a pair.
WatchStartNeedsPair ==
    /\ callerpc = "watch_start"
    /\ IF keyPair = NoPair
       THEN /\ callerpc' = "idle"
            /\ calls' = [calls EXCEPT !.watchRet = [err |-> "can't load", path |-> <<>>]]
            /\ UNCHANGED <<log, watching, looppc, running>>
       ELSE /\ log' = Printf("watching for cert and key change", "")
            /\ watching' = watching + 1
            /\ looppc' = "start"
            /\ running' = running + 1
            /\ callerpc' = "watch_return"
            /\ UNCHANGED calls
    /\ UNCHANGED <<envVars, mu, keyPair, watcher, watched, chanVars, reload, ld,
                   sendChan, getVars, histVars, opened, adds, heapVars, event>>

\* Watch after load(): the "watching" message, make(chan bool), go cm.run().
WatchStart ==
    /\ callerpc = "watch_start"
    /\ log' = Printf("watching for cert and key change", "")
    /\ watching' = watching + 1
    /\ looppc' = "start"
    /\ running' = running + 1
    /\ callerpc' = "watch_return"
    /\ UNCHANGED <<envVars, mu, keyPair, watcher, watched, chanVars, reload, ld,
                   sendChan, calls, getVars, histVars, opened, adds, heapVars, event>>

\* return nil
WatchReturn ==
    /\ callerpc = "watch_return"
    /\ callerpc' = "idle"
    /\ calls' = [calls EXCEPT !.watchRet = Nil]
    /\ UNCHANGED <<envVars, cmVars, chanVars, loopVars, ld, sendChan, getVars, histVars,
                   resVars, heapVars, event>>

(* --------------------------------- run -------------------------------- *)

\* run() before its loop: the "running" message, the ticker, the zero
\* reload time.
runStart ==
    /\ looppc = "start"
    /\ log' = Printf("running", "")
    /\ tickerNext' = now + TickPeriod
    /\ reload' = ZeroTime
    /\ looppc' = "select"
    /\ UNCHANGED <<envVars, mu, keyPair, watcher, watched, watching, events, errors,
                   tick, ld, callerVars, getVars, histVars, resVars, heapVars, event>>

\* runStop without the break.
runStopKeepsLooping ==
    /\ looppc = "select"
    /\ callerpc = "stop_send"
    /\ sendChan # NilChan
    /\ sendChan = watching
    /\ callerpc' = "stop_sent"
    /\ log' = Printf("watching triggered; break loop", "")
    /\ looppc' = "select"
    /\ UNCHANGED <<envVars, mu, keyPair, watcher, watched, watching, chanVars, reload,
                   ld, sendChan, calls, getVars, histVars, resVars, heapVars, event>>

\* case <-cm.watching: the receive completes the send of a blocked Stop.
runStop ==
    /\ looppc = "select"
    /\ callerpc = "stop_send"
    /\ sendChan # NilChan
    /\ sendChan = watching
    /\ callerpc' = "stop_sent"
    /\ log' = Printf("watching triggered; break loop", "")
    /\ looppc' = "break"
    /\ UNCHANGED <<envVars, mu, keyPair, watcher, watched, watching, chanVars, reload,
                   ld, sendChan, calls, getVars, histVars, resVars, heapVars, event>>

\* ReloadDue without the wait for the reload time.
ReloadDueAtOnce(r, t) == r # ZeroTime

\* !reload.IsZero() && time.Now().After(reload)
ReloadDue(r, t) == r # ZeroTime /\ t > r

\* runTick that clears a due reload and does not call load().
runTickForgetsLoad ==
    /\ looppc = "select"
    /\ tick
    /\ tick' = FALSE
    /\ IF ReloadDue(reload, now)
       THEN /\ reload' = ZeroTime
            /\ log' = Printf("reloading", "")
            /\ UNCHANGED <<ld, looppc, burst>>
       ELSE UNCHANGED <<reload, log, ld, looppc, burst>>
    /\ UNCHANGED <<envVars, mu, keyPair, watcher, watched, watching, events, errors,
                   tickerNext, callerVars, getVars, produced, failedLoads, snap,
                   resVars, heapVars, event>>

\* runTick that calls load() and leaves the reload time set.
runTickKeepsReload ==
    /\ looppc = "select"
    /\ tick
    /\ tick' = FALSE
    /\ IF ReloadDue(reload, now)
       THEN /\ reload' = reload
            /\ log' = Printf("reloading", "")
            /\ ld' = [NoLoad EXCEPT !.who = "run", !.pc = "readCert"]
            /\ looppc' = "loading"
            /\ burst' = [burst EXCEPT !.loads = @ + 1]
       ELSE UNCHANGED <<reload, log, ld, looppc, burst>>
    /\ UNCHANGED <<envVars, mu, keyPair, watcher, watched, watching, events, errors,
                   tickerNext, callerVars, getVars, produced, failedLoads, snap,
                   resVars, heapVars, event>>

\* case <-ticker.C: when the reload is due, clear it and call load().
runTick ==
    /\ looppc = "select"
    /\ tick
    /\ tick' = FALSE
    /\ IF ReloadDue(reload, now)
       THEN /\ reload' = ZeroTime
            /\ log' = Printf("reloading", "")
            /\ ld' = [NoLoad EXCEPT !.who = "run", !.pc = "readCert"]
            /\ looppc' = "loading"
            /\ burst' = [burst EXCEPT !.loads = @ + 1]
       ELSE UNCHANGED <<reload, log, ld, looppc, burst>>
    /\ UNCHANGED <<envVars, mu, keyPair, watcher, watched, watching, events, errors,
                   tickerNext, callerVars, getVars, produced, failedLoads, snap,
                   resVars, heapVars, event>>

\* Matches without the test for the secrets mount.
MatchesNameOnly(name, f) == name = f

\* event.Name == f || strings.HasSuffix(event.Name, "/..data")
Matches(name, f) == name = f \/ HasDataSuffix(name)

\* Requeue that keeps a reload time already set.
RequeueKeepsFirst(r, t) == IF r = ZeroTime THEN t + Delay ELSE r

\* The reload time an event is given: time.Now().Add(1 * time.Second).
Requeue(r, t) == t + Delay

\* for _, f := range files: the state (reload, log) after the files of fs.
RECURSIVE ForFiles(_, _, _)
ForFiles(fs, name, st) ==
    IF fs = <<>> THEN st
    ELSE LET f == Head(fs)
             next ==
                 IF Matches(name, f)
                 THEN [reload |-> Requeue(st.reload, now),
                       log |-> IF st.reload = ZeroTime
                               THEN Append(st.log, Line("was modified, queue reload", QueueArg(f)))
                               ELSE st.log]
                 ELSE st
         IN ForFiles(Tail(fs), name, next)

\* The burst of matching events after one more has been processed at time
\* t: the event continues the burst when it follows the previous one by
\* less than Delay, and starts a new burst otherwise.
NextBurst(t) ==
    IF burst.last # ZeroTime /\ t - burst.last < Delay
    THEN [burst EXCEPT !.last = t, !.many = TRUE, !.late = @ \/ (burst.loads > 0)]
    ELSE [first |-> t, last |-> t, many |-> FALSE, loads |-> 0, late |-> FALSE,
          clean |-> (reload = ZeroTime)]

\* case event := <-cm.watcher.Events
runEvent ==
    /\ looppc = "select"
    /\ events # <<>>
    /\ LET name == Head(events)
           st == ForFiles(<<certFile, keyFile>>, name, [reload |-> reload, log |-> log])
       IN /\ reload' = st.reload
          /\ log' = st.log
          /\ burst' = IF \E f \in {certFile, keyFile} : Matches(name, f)
                      THEN NextBurst(now)
                      ELSE burst
    /\ events' = Tail(events)
    /\ event' = Head(events)
    /\ UNCHANGED <<envVars, mu, keyPair, watcher, watched, watching, errors, tick,
                   tickerNext, looppc, ld, callerVars, getVars, produced,
                   failedLoads, snap, resVars, heapVars>>

\* runError that leaves the loop, as for a stop.
runErrorEndsLoop ==
    /\ looppc = "select"
    /\ errors > 0
    /\ errors' = errors - 1
    /\ log' = Printf("error watching files", "")
    /\ looppc' = "break"
    /\ UNCHANGED <<envVars, mu, keyPair, watcher, watched, watching, events, tick,
                   tickerNext, reload, ld, callerVars, getVars, histVars,
                   resVars, heapVars, event>>

\* case err := <-cm.watcher.Errors
runError ==
    /\ looppc = "select"
    /\ errors > 0
    /\ errors' = errors - 1
    /\ log' = Printf("error watching files", "")
    /\ UNCHANGED <<envVars, mu, keyPair, watcher, watched, watching, events, tick,
                   tickerNext, loopVars, ld, callerVars, getVars, histVars,
                   resVars, heapVars, event>>

\* After the loop: the "stopped watching" message ...
runStopped ==
    /\ looppc = "break"
    /\ log' = Printf("stopped watching", "")
    /\ looppc' = "close"
    /\ UNCHANGED <<envVars, mu, keyPair, watcher, watched, watching, chanVars, reload,
                   ld, callerVars, getVars, histVars, resVars, heapVars, event>>

\* ... then cm.watcher.Close() and ticker.Stop(); the goroutine ends.  A
\* closed watcher delivers nothing more.
runClose ==
    /\ looppc = "close"
    /\ watcher' = "closed"
    /\ events' = <<>>
    /\ errors' = 0
    /\ tickerNext' = ZeroTime
    /\ looppc' = "done"
    /\ opened' = opened - 1
    /\ running' = running - 1
    /\ UNCHANGED <<envVars, mu, keyPair, watched, watching, log, tick, reload, ld,
                   callerVars, getVars, histVars, adds, heapVars, event>>

(* ------------------------------ accessors ----------------------------- *)

\* cm.mu.RLock(); defer cm.mu.RUnlock(); return cm.keyPair, nil
GetCertificate ==
    /\ EnvMay
    /\ mu = "free"
    /\ envOps' = envOps + 1
    /\ got' = [fn |-> "GetCertificate", pair |-> keyPair, err |-> "nil",
               ref |-> keyPairRef]
    /\ UNCHANGED <<now, cfg, certData, keyData, cmVars, chanVars, loopVars, ld,
                   callerVars, histVars, resVars, heapVars, event>>

\* cm.mu.RLock(); defer cm.mu.RUnlock(); return cm.keyPair, nil
GetClientCertificate ==
    /\ EnvMay
    /\ mu = "free"
    /\ envOps' = envOps + 1
    /\ got' = [fn |-> "GetClientCertificate", pair |-> keyPair, err |-> "nil",
               ref |-> keyPairRef]
    /\ UNCHANGED <<now, cfg, certData, keyData, cmVars, chanVars, loopVars, ld,
                   callerVars, histVars, resVars, heapVars, event>>

(* -------------------------------- Stop -------------------------------- *)

\* cm.watching <- false: the send blocks until a receiver takes it.
Stop ==
    /\ callerpc = "idle"
    /\ calls.stop < MaxStops
    /\ callerpc' = "stop_send"
    /\ sendChan' = watching
    /\ calls' = [calls EXCEPT !.stop = @ + 1]
    /\ UNCHANGED <<envVars, cmVars, chanVars, loopVars, ld, getVars, histVars,
                   resVars, heapVars, event>>

\* The send has been received: Stop returns.
StopReturn ==
    /\ callerpc = "stop_sent"
    /\ callerpc' = "idle"
    /\ calls' = [calls EXCEPT !.stopRet = @ + 1]
    /\ UNCHANGED <<envVars, cmVars, chanVars, loopVars, ld, sendChan, getVars, histVars,
                   resVars, heapVars, event>>

(* ---------------------------- specification --------------------------- *)

\* The caller's thread starts the manager once.
WatchOnce == \E created \in BOOLEAN : calls.watch = 0 /\ Watch(created)

Next ==
    \/ \E c \in Contents : WriteCert(c)
    \/ \E c \in Contents : WriteKey(c)
    \/ \E d \in Dirs, id \in Identities : SwapData(d, id)
    \/ \E d \in Dirs : WriteOther(d)
    \/ BackendError
    \/ Elapse
    \/ WatchOnce
    \/ loadReadCert
    \/ loadReadKey
    \/ loadStore
    \/ loadDone
    \/ WatchStart
    \/ WatchReturn
    \/ runStart
    \/ runStop
    \/ runTick
    \/ runEvent
    \/ runError
    \/ runStopped
    \/ runClose
    \/ GetCertificate
    \/ GetClientCertificate
    \/ Stop
    \/ StopReturn

Spec == Init /\ [][Next]_vars

\* The same program with its goroutines scheduled fairly and the clock
\* running: time passes (to the end of the clock), so the ticker keeps
\* ticking, and the goroutine of run(), whenever it can take a step of its
\* own (start, a tick, an event, an error, a step of load()), eventually
\* takes one.  Nothing is assumed of the caller's thread or of the
\* environment, which may stop at any time.
SpecFair ==
    /\ Spec
    /\ WF_vars(Elapse)
    /\ WF_vars(runStart)
    /\ WF_vars(runTick)
    /\ WF_vars(runEvent)
    /\ WF_vars(runError)
    /\ WF_vars(loadReadCert)
    /\ WF_vars(loadReadKey)
    /\ WF_vars(loadStore)
    /\ WF_vars(loadDone)

\* The caller's thread calls Watch a second time on a manager that is
\* Watching: the first call has returned nil, no Stop has been called and the
\* goroutine of run() waits in its select.
WatchAgain ==
    \E created \in BOOLEAN :
        /\ calls.watch = 1
        /\ calls.stop = 0
        /\ calls.watchRet = Nil
        /\ looppc = "select"
        /\ Watch(created)

\* The steps of the second call of Watch, to its return.  They are followed
\* with the goroutines of run() not scheduled meanwhile: the first one stays
\* in its select, and the one the second call starts is counted (running)
\* and stays at its start.
WatchAgainSteps ==
    /\ calls.watch = 2
    /\ \/ loadReadCert
       \/ loadReadKey
       \/ loadStore
       \/ loadDone
       \/ WatchStart
       \/ WatchReturn

NextRewatch ==
    \/ (calls.watch < 2 /\ Next)
    \/ WatchAgain
    \/ WatchAgainSteps

SpecRewatch == Init /\ [][NextRewatch]_vars

(* ------------------------------- claims ------------------------------- *)

Matched(p) == p.cert \in Identities /\ p.key = p.cert

\* A reload attempt of run() (not the initial load of Watch) has failed.
ReloadFailed == failedLoads > 0 /\ Count(log, IsReloading) > 0

\* C1: what an accessor has returned, and what the store holds, is either
\* the absent value or a pair that one successful tls.LoadX509KeyPair
\* produced whole: its certificate and its key carry the same identity.
\* Never a pair of a failed load, never the certificate of one load with
\* the key of another; the accessor returns no error.
C1_WholePairOrAbsent ==
    /\ got.pair = NoPair \/ (got.pair \in produced /\ Matched(got.pair))
    /\ keyPair = NoPair \/ (keyPair \in produced /\ Matched(keyPair))
    /\ got.err = "nil"

\* An accessor has returned a loaded pair after a load has failed on files
\* that do not match.
C1_Witness ==
    /\ got.fn # "none"
    /\ got.pair # NoPair
    /\ failedLoads > 0
    /\ certData # keyData

\* C2: a load that fails leaves the store as it was, and a store that holds
\* a pair never goes back to the absent value: the accessors keep returning
\* the pair through any number of failed reload attempts.
C2_FailedReloadKeepsPair ==
    [][/\ (failedLoads' > failedLoads => keyPair' = keyPair)
       /\ (keyPair # NoPair => keyPair' # NoPair)]_vars

\* A reload attempt has failed while the store held a pair, which it still
\* holds.
C2_Witness == ReloadFailed /\ keyPair # NoPair

C4_StopReturnsAfterLoopExit ==
    calls.stopRet >= 1 =>
        /\ looppc = "done"
        /\ watcher = "closed"
        /\ Count(log, LAMBDA l : l = StoppedMsg) = 1

\* C5: after Stop has returned on a manager started once, no step starts or
\* continues a load, changes the stored pair or logs "certificate and key
\* loaded".
C5_NoLoadAfterStop ==
    [][(calls.stopRet >= 1 /\ calls.watch = 1) =>
        /\ ld = NoLoad /\ ld' = NoLoad
        /\ keyPair' = keyPair
        /\ failedLoads' = failedLoads
        /\ Count(log', IsLoaded) = Count(log, IsLoaded)
        /\ Count(log', IsReloading) = Count(log, IsReloading)]_vars

\* Stop has returned and the loop has ended with a reload pending and
\* overdue, a tick waiting and the files rewritten.
C5_Witness ==
    /\ calls.stopRet >= 1
    /\ looppc = "done"
    /\ reload # ZeroTime /\ now > reload
    /\ tick
    /\ snap

\* The send of a blocked Stop can be received: the goroutine of run() is
\* still before or in its loop, on the channel the send is on.
CanReceive ==
    /\ sendChan # NilChan
    /\ sendChan = watching
    /\ looppc \in {"start", "select", "loading"}

\* A Stop whose send cannot be received stays blocked: no step completes
\* the send or brings a receiver back.
StuckStopStaysStuck ==
    [][(callerpc = "stop_send" /\ ~CanReceive) =>
        (callerpc' = "stop_send" /\ ~CanReceive')]_vars

\* C6: a second Stop on a stopped manager returns: it is never left sending
\* on a channel that nothing will receive from.
C6_SecondStopReturns ==
    ~(calls.stop >= 2 /\ calls.stopRet >= 1 /\ callerpc = "stop_send" /\ ~CanReceive)

\* C7: Stop on a manager on which Watch has never been called returns: it
\* is never left sending on the nil channel.
C7_StopBeforeWatchReturns ==
    ~(calls.watch = 0 /\ callerpc = "stop_send" /\ ~CanReceive)

\* C8: when Watch is about to return nil and the files, not rewritten since
\* Watch was called, hold a valid matching pair, the accessors return the
\* pair of those files, with no error.
C8_WatchLoadsValidPair ==
    (callerpc = "watch_return" /\ ~snap /\ LoadX509KeyPair(certData, keyData).err = "nil") =>
        /\ mu = "free"
        /\ keyPair = [cert |-> certData, key |-> keyData]

\* Watch is about to return nil with the pair of the files loaded.
C8_Witness ==
    /\ callerpc = "watch_return"
    /\ ~snap
    /\ LoadX509KeyPair(certData, keyData).err = "nil"
    /\ keyPair = [cert |-> certData, key |-> keyData]

\* The initial load of Watch has failed: its message opens the log.
InitialLoadFailed == log # <<>> /\ IsCantLoad(log[1])

\* C9: when the initial load fails, Watch still returns nil, never an
\* error, with the monitoring loop started, and the store stays absent
\* until a load succeeds (tls.LoadX509KeyPair returns a pair).
C9_FailedInitialLoadNotFatal ==
    InitialLoadFailed =>
        /\ calls.watchRet \in {NoRet, Nil}
        /\ (callerpc = "idle" => calls.watchRet = Nil /\ looppc # "none")
        /\ (produced = {} => keyPair = NoPair)

\* Watch has returned nil after a failed initial load and an accessor has
\* returned the absent value.
C9_Witness ==
    /\ InitialLoadFailed
    /\ calls.watchRet = Nil
    /\ looppc = "select"
    /\ got.fn # "none"
    /\ got.pair = NoPair

\* C10: each failed load has logged exactly one "can't load cert or key
\* file" message.
C10_OneMessagePerFailedLoad ==
    ld = NoLoad => Count(log, IsCantLoad) = failedLoads

\* C11: when the certificate file does not exist as Watch is called, Watch
\* (having made its watcher) returns the error "can't watch" of the
\* certificate's side, whether the file's directory exists or not, and
\* likewise of the key's side when the key file does not exist; no
\* monitoring loop is started.
C11_MissingFileFailsWatch ==
    (calls.watch = 1 /\ callerpc = "idle" /\ ~snap /\ watcher # "nil") =>
        /\ certData = Missing =>
               /\ calls.watchRet = [err |-> "can't watch", path |-> PathDir(certFile)]
               /\ looppc = "none"
        /\ (certData # Missing /\ keyData = Missing) =>
               /\ calls.watchRet = [err |-> "can't watch", path |-> PathDir(keyFile)]
               /\ looppc = "none"

\* C12: in every state a manager has at most one goroutine of run() and at
\* most one open watcher, and a call of Watch on a manager that is Watching
\* leaves the stop channel of the running loop in place.
C12_OneLoopOneSubscription ==
    /\ running <= 1
    /\ opened <= 1
    /\ (calls.watch > 1 /\ running >= 1) => watching = 1

\* C13: what an accessor (either of the two) has returned is the stored
\* pair with no error when the store held a pair, and an absent-certificate
\* error when it held none, before Watch as well as after a failed load.
C13_AbsentPairIsAnError ==
    got.fn \in {"GetCertificate", "GetClientCertificate"} =>
        IF got.ref = NilRef
        THEN got.err # "nil"
        ELSE got.err = "nil" /\ got.pair = heap[got.ref]

\* The store's pointer and the pair it points to: cm.keyPair is nil or the
\* address of a heap object that holds the stored pair.
StoreIsHeapObject ==
    IF keyPairRef = NilRef
    THEN keyPair = NoPair
    ELSE keyPairRef \in DOMAIN heap /\ heap[keyPairRef] = keyPair

\* C14: no step changes a tls.Certificate that has been allocated, so the
\* object a handshake got from an accessor holds the pair it held when the
\* accessor returned it, also after a reload has made the store point to
\* another object.
C14_SnapshotNeverChanges ==
    [][/\ \A i \in DOMAIN heap : i \in DOMAIN heap' /\ heap'[i] = heap[i]
       /\ got'.ref # NilRef => heap'[got'.ref] = got'.pair]_vars

\* A handshake holds the pair it got before a reload, and the store has
\* switched to the pair of another identity.
C14_Witness ==
    /\ got.ref # NilRef
    /\ keyPairRef # got.ref
    /\ keyPair # got.pair
    /\ heap[got.ref] = got.pair

WatchErrorMsg == Line("error watching files", "")

\* C15: the step of run() that takes an error from the watcher's Errors
\* channel logs it and changes nothing else: the loop is back in its select,
\* and the stored pair, the pending reload, the watcher, the waiting events
\* and ticks are as they were, so later events are processed as before.
C15_BackendErrorOnlyLogged ==
    [][(looppc = "select" /\ errors > 0 /\ errors' < errors) =>
        /\ log' = Append(log, WatchErrorMsg)
        /\ errors' = errors - 1
        /\ looppc' = "select"
        /\ keyPair' = keyPair /\ keyPairRef' = keyPairRef
        /\ reload' = reload
        /\ watcher' = watcher /\ watched' = watched /\ watching' = watching
        /\ events' = events /\ tick' = tick /\ tickerNext' = tickerNext
        /\ ld' = ld]_vars

\* A backend error has been logged while a pair was stored, and a matching
\* event processed after it has led to a reload attempt.
C15_Witness ==
    /\ keyPair # NoPair
    /\ \E i, j \in DOMAIN log :
           /\ i < j
           /\ log[i] = WatchErrorMsg
           /\ IsReloading(log[j])

\* C16: once Watch has registered its paths (it has not returned an error),
\* the watcher holds one registration for each distinct parent directory of
\* the two files, none of them twice: one when the files share a directory,
\* two when they do not; the files themselves are never registered.
C16_OneRegistrationPerDirectory ==
    (calls.watch >= 1 /\ calls.watchRet.err \in {"none", "nil"}) =>
        /\ \A i, j \in DOMAIN adds : i # j => adds[i] # adds[j]
        /\ {adds[i] : i \in DOMAIN adds} = {PathDir(certFile), PathDir(keyFile)}
        /\ Len(adds) = (IF cfg.certDir = cfg.keyDir THEN 1 ELSE 2)
        /\ \A i \in DOMAIN adds : adds[i] \notin {certFile, keyFile}
        /\ watched = {adds[i] : i \in DOMAIN adds}

\* Watch has returned nil on files that share a directory, which it has
\* registered once.
C16_Witness ==
    /\ calls.watchRet = Nil
    /\ cfg.certDir = cfg.keyDir
    /\ adds = <<cfg.certDir>>

\* C17: when Watch is at its return after an initial load that succeeded,
\* the log is exactly "certificate and key loaded" followed by "watching
\* for cert and key change", whatever the goroutine of run() has done since
\* Watch started it.
C17_LogAtWatchReturn ==
    (callerpc = "watch_return" /\ log # <<>> /\ log[1] = Loaded) =>
        log = <<Loaded, WatchingMsg>>

\* A step of run() that takes an event from the watcher's Events channel.
EventStep == looppc = "select" /\ events # <<>> /\ event' = Head(events) /\ events' = Tail(events)

\* C18: the step of run() that processes an event sets the pending reload
\* (to the time of the step plus Delay) exactly when the event's name is
\* the certificate file, the key file, or ends with "/..data"; for any
\* other name the pending reload, the stored pair and the log are left as
\* they were.
C18_OnlyMatchingEventsSchedule ==
    [][EventStep =>
        LET name == Head(events) IN
        IF name = certFile \/ name = keyFile \/ name[Len(name)] = "..data"
        THEN reload' = now + Delay
        ELSE /\ reload' = reload
             /\ keyPair' = keyPair /\ keyPairRef' = keyPairRef
             /\ log' = log]_vars

\* run() has processed an event of another file of a watched directory
\* while a reload was pending, and the reload is pending still, as the last
\* matching event queued it.
C18_Witness ==
    /\ looppc = "select"
    /\ event # NoEvent
    /\ event \notin {certFile, keyFile}
    /\ event[Len(event)] = "other"
    /\ reload # ZeroTime
    /\ reload = burst.last + Delay

\* A step of run() that starts a reload attempt.
ReloadStep == ld = NoLoad /\ ld'.who = "run"

TickTime(t) == t % TickPeriod = tickerNext % TickPeriod

\* The ticker fires after the reload time before the clock ends.
WithinClock == \E t \in (reload + 1)..MaxTime : TickTime(t)

\* A reload is pending in the running loop, to be due within the clock.
Pending == looppc = "select" /\ reload # ZeroTime /\ WithinClock

\* C20: with the loop scheduled fairly and the ticker ticking, a pending
\* reload of the running loop is eventually followed by a load attempt,
\* which clears it, unless the loop is stopped first (or a later matching
\* event moves the reload time past the last tick of the clock); and the
\* pending reload is cleared by nothing but the start of a load attempt.
C20_PendingReloadIsAttempted ==
    /\ Pending ~> \/ reload = ZeroTime /\ burst.loads >= 1
                  \/ looppc \in {"break", "close", "done"}
                  \/ reload # ZeroTime /\ ~WithinClock
    /\ [][(reload # ZeroTime /\ reload' = ZeroTime) => ReloadStep]_vars

\* The loop, never stopped, has attempted the reload that a matching event
\* had queued: the attempt is logged after the event.
C20_Witness ==
    /\ calls.stop = 0
    /\ looppc = "loading"
    /\ burst.loads = 1
    /\ reload = ZeroTime
    /\ \E i \in DOMAIN log :
           /\ log[i][1] = "was modified, queue reload"
           /\ i < Len(log)
           /\ IsReloading(log[i + 1])

\* A step that ends a load() called by run(), with or without an error.
ReloadEnds == ld.who = "run" /\ ld' = NoLoad

\* C21: the step of run() that starts a reload attempt clears the pending
\* reload, and it is still cleared when the attempt ends, succeeded or
\* failed; a cleared reload is set again only by the step that processes a
\* matching event, and an attempt is the first since the last such event:
\* nothing retries a failed load on later ticks.
C21_NoRetryWithoutEvent ==
    [][/\ ReloadStep => (reload' = ZeroTime /\ burst.loads = 0)
       /\ ReloadEnds => (reload' = ZeroTime /\ looppc' = "select")
       /\ (reload = ZeroTime /\ reload' # ZeroTime) =>
              /\ EventStep
              /\ \E f \in {certFile, keyFile} : Matches(Head(events), f)]_vars

\* A reload attempt has failed on files that still do not load; the loop
\* is back in its select with no reload pending, no event waiting and every
\* tick of the clock taken.
C21_Witness ==
    /\ ReloadFailed
    /\ burst.loads = 1
    /\ LoadX509KeyPair(certData, keyData).err # "nil"
    /\ looppc = "select"
    /\ reload = ZeroTime
    /\ events = <<>>
    /\ ~tick
    /\ now = MaxTime

\* C22: cm.mu is write-locked only for the assignment of cm.keyPair: it is
\* free while load() reads and parses the files and whenever load() calls
\* the logger.
C22_LockOnlyForSwap ==
    ld.pc \in {"readCert", "readKey", "log"} => mu = "free"

\* C23: when Watch has returned an error, no goroutine of run() has been
\* started, no load has been attempted, the store is as it was (empty) and
\* the watcher the call had made is closed.
C23_FailedWatchHoldsNothing ==
    (calls.watch = 1 /\ callerpc = "idle" /\ calls.watchRet.err \notin {"none", "nil"}) =>
        /\ running = 0 /\ looppc = "none"
        /\ failedLoads = 0 /\ produced = {} /\ log = <<>>
        /\ keyPair = NoPair /\ keyPairRef = NilRef
        /\ opened = 0

====
